---- MODULE Spec2Model ----
(***************************************************************************)
(* pkglint: the package graph (Packages), the want-closure resolver        *)
(* (mark_wanted_by_name / __mark_wanted_by_provided), Package construction *)
(* with version stripping, and the process() driver that builds the graph, *)
(* feeds it the want list and reads the unwanted packages.                 *)
(*                                                                         *)
(* A string is a sequence of one-character strings, so that the regular    *)
(* expression of __strip_versions can be modelled character by character.  *)
(* A Package object is a record; by_provides holds references to Package   *)
(* objects, modelled by the packages' names (unique keys of by_name); the  *)
(* __wanted flags of all Package objects are the set `wanted`.             *)
(***************************************************************************)
EXTENDS Integers, Sequences, FiniteSets

\* ------------------------------------------------------------- bounds

\* most packages read from the database in one run
MaxPkgs == 4
\* most want-list lines processed in one run
MaxWants == 2
\* longest raw dependency string of the version-stripping universe
MaxLen == 4

\* deepest nesting of resolver calls before the interpreter gives up; any
\* terminating traversal nests at most two calls per package
RecursionLimit == 2 * MaxPkgs + 2

\* ------------------------------------------------------------- strings

\* package and alias names used by the input universes
A == <<"a">>
B == <<"b">>
C == <<"c">>
D == <<"d">>
V == <<"v">>
M == <<"m">>

Comparators == {"<", ">", "="}

Min(S) == CHOOSE x \in S : \A y \in S : x <= y

Range(s) == {s[i] : i \in DOMAIN s}

SeqsUpTo(S, n) == UNION {[1..k -> S] : k \in 0..n}

\* ------------------------------------------------------------- Package

\* the regular expression [<>=]{1,2}.+$ matches at position i: one or two
\* comparator characters, then at least one more character, up to the end
RegexMatchesAt(item, i) ==
    \E k \in 1..2 :
        /\ \A j \in i..(i + k - 1) : j <= Len(item) /\ item[j] \in Comparators
        /\ i + k <= Len(item)

\* the substitution with .* where the expression has .+
re_sub_star(item) ==
    LET hits == {i \in 1..Len(item) : item[i] \in Comparators}
    IN  IF hits = {} THEN item ELSE SubSeq(item, 1, Min(hits) - 1)

\* re.sub(r'[<>=]{1,2}.+$', '', item): the leftmost match is removed; it runs
\* to the end of the string, so there is no second match
re_sub(item) ==
    LET hits == {i \in 1..Len(item) : RegexMatchesAt(item, i)}
    IN  IF hits = {} THEN item ELSE SubSeq(item, 1, Min(hits) - 1)

strip_versions(items) == [i \in DOMAIN items |-> re_sub(items[i])]

\* Package(desc_file_path): the sections of the file, the two lists stripped.
\* The file stands for its path; version and description are display only.
Package(file) ==
    [desc_file_path |-> file,
     name           |-> file.name,
     depends        |-> strip_versions(file.depends),
     provides       |-> strip_versions(file.provides)]

\* ------------------------------------------------------------- inputs

File(n, dep, prov) == [name |-> n, depends |-> dep, provides |-> prov]

\* desc files of the general universe: three installable names, an alias
\* that may also be an installed name (v) and a name never installed (m)
GeneralFiles ==
    {File(n, dep, prov) : n \in {A, B, V},
                          dep \in SeqsUpTo({A, B, V, M}, 1),
                          prov \in SeqsUpTo({V}, 1)}

\* desc files of the diamond universe: four names, no aliases
DiamondFiles ==
    {File(A, <<B, C>>, <<>>), File(A, <<B>>, <<>>),
     File(B, <<D>>, <<>>),    File(B, <<A>>, <<>>),
     File(C, <<D>>, <<>>),    File(C, <<>>, <<>>),
     File(D, <<>>, <<>>),     File(D, <<A>>, <<>>)}

RawChars == {"v", ">", "="}

RawStrings(n) == UNION {[1..k -> RawChars] : k \in 1..n}

\* desc files of the version-stripping universe: a depends on one raw
\* string, b provides one raw string
StripFiles ==
    {File(A, <<s>>, <<>>) : s \in RawStrings(MaxLen)}
        \cup {File(B, <<>>, <<s>>) :
                 s \in {<<"v">>, <<"v", "<", "v">>, <<"v", "<">>, <<"<", "=", "v">>}}

\* glob.glob(f"{db_dir_path}/*/desc"): the desc files a database directory
\* may hold
glob(db_dir_path) ==
    CASE db_dir_path = "general" -> GeneralFiles
      [] db_dir_path = "diamond" -> DiamondFiles
      [] db_dir_path = "strip"   -> StripFiles

\* the lines a want list may hold beside a database: the package names and
\* the provided names of its files
WantNames(fs) ==
    {f.name : f \in fs} \cup UNION {Range(Package(f).provides) : f \in fs}

GeneralWants == WantNames(GeneralFiles)

DiamondWants == WantNames(DiamondFiles)

StripWants == WantNames(StripFiles)

UserWantsList(db_dir_path) ==
    CASE db_dir_path = "general" -> GeneralWants
      [] db_dir_path = "diamond" -> DiamondWants
      [] db_dir_path = "strip"   -> StripWants

\* ------------------------------------------------------------- state

VARIABLES
    db_dir_path,  \* LocalPackageDatabase.__db_dir_path: the database read
    phase,        \* position of process(): "read", "mark", "done", "aborted"
    by_name,      \* Packages.__by_name: Package records in insertion order
    by_provides,  \* Packages.__by_provides: alias -> sequence of package names
    wanted,       \* names of the packages whose __wanted flag is True
    wants,        \* the want-list lines passed to mark_wanted_by_name so far
    ret,          \* outcome of the last call: "none", "True", "False", "raised"
    exc,          \* the exception that ended the run, or NoExc
    log,          \* the resolver calls made by the last mark_wanted_by_name
    unwanted      \* what get_unwanted() returned to process()

vars == <<db_dir_path, phase, by_name, by_provides, wanted, wants, ret, exc, log,
          unwanted>>

NoExc == [kind |-> "none", what |-> "", dep |-> <<>>, pkg |-> <<>>]

\* DuplicationError.package(package)
DuplicationError(p) ==
    [kind |-> "DuplicationError", what |-> "duplicated", dep |-> <<>>, pkg |-> p.name]

\* LookupError(f"'{dep_name}' required by {package.name} is not installed, nor provided")
UnresolvedError(dep_name, p) ==
    [kind |-> "LookupError", what |-> "required", dep |-> dep_name, pkg |-> p.name]

\* LookupError(f"'{wanted_pkg_name}' is not installed")
NotInstalledError(n) ==
    [kind |-> "LookupError", what |-> "not installed", dep |-> <<>>, pkg |-> n]

RecursionError ==
    [kind |-> "RecursionError", what |-> "", dep |-> <<>>, pkg |-> <<>>]

\* the keys of the insertion-ordered dict by_name
Keys(bn) == {bn[i].name : i \in DOMAIN bn}

\* by_name[package_name]
Lookup(bn, n) == bn[CHOOSE i \in DOMAIN bn : bn[i].name = n]

\* ------------------------------------------------------------- Packages

\* Packages.add, lines 122-126: the package is appended to by_provides[provided]
\* for each entry of its provides list, from entry i on
RECURSIVE register_provides(_, _, _)
register_provides(bp, p, i) ==
    IF i > Len(p.provides) THEN bp
    ELSE LET provided == p.provides[i]
             created  == IF provided \in DOMAIN bp THEN bp
                         ELSE [x \in DOMAIN bp \cup {provided} |->
                                  IF x = provided THEN <<>> ELSE bp[x]]
         IN  register_provides(
                 [created EXCEPT ![provided] = Append(@, p.name)], p, i + 1)

RECURSIVE mark_wanted_by_name(_, _, _, _)
RECURSIVE mark_wanted_by_provided(_, _, _)
RECURSIVE depends_loop(_, _, _, _)
RECURSIVE providers_loop(_, _, _, _)

\* a wanted flag that is never seen set
is_wanted_never(st, p) == FALSE

\* Package.wanted of the package, in resolver state st
is_wanted(st, p) == p.name \in st.wanted

\* Package.mark_wanted(), and the visit noted in the call log
mark_wanted(st, p) ==
    [st EXCEPT !.wanted = @ \cup {p.name}, !.log = Append(@, <<"visit", p.name>>)]

\* an unknown name handed on to alias resolution
name_not_installed_tries_alias(st, package_name, depth) ==
    mark_wanted_by_provided(st, package_name, depth + 1)

\* mark_wanted_by_name, lines 129-130: the name is no key of by_name
name_not_installed(st, package_name, depth) == [st |-> st, ret |-> FALSE]

\* an already wanted package reported as not found
already_wanted_returns_false(st, p) == [st |-> st, ret |-> FALSE]

\* mark_wanted_by_name, line 134 false, line 141: the package is wanted already
already_wanted(st, p) == [st |-> st, ret |-> TRUE]

\* an unresolved dependency reported by a False return
raise_unresolved_returns_false(st, dep_name, p) == [st |-> st, ret |-> FALSE]

\* mark_wanted_by_name, line 139: no name and no alias satisfies dep_name
raise_unresolved(st, dep_name, p) ==
    [st |-> [st EXCEPT !.exc = UnresolvedError(dep_name, p)], ret |-> FALSE]

\* the two lookups of line 138 in the other order
resolve_dep_alias_first(st, dep_name, p, depth) ==
    LET r1 == mark_wanted_by_provided(st, dep_name, depth + 1)
    IN  IF r1.st.exc.kind # "none" \/ r1.ret THEN r1
        ELSE mark_wanted_by_name(r1.st, dep_name, <<"dep", p.name>>, depth + 1)

\* the condition of line 138 for one dependency: by name first, and by
\* alias only when the name lookup returned False; ret is TRUE when the
\* dependency is satisfied
resolve_dep(st, dep_name, p, depth) ==
    LET r1 == mark_wanted_by_name(st, dep_name, <<"dep", p.name>>, depth + 1)
    IN  IF r1.st.exc.kind # "none" \/ r1.ret THEN r1
        ELSE mark_wanted_by_provided(r1.st, dep_name, depth + 1)

\* mark_wanted_by_name, lines 137-141: the loop over package.depends from
\* entry i on, then return True
depends_loop(st, p, i, depth) ==
    IF i > Len(p.depends) THEN [st |-> st, ret |-> TRUE]
    ELSE LET r == resolve_dep(st, p.depends[i], p, depth)
         IN  IF r.st.exc.kind # "none" THEN [st |-> r.st, ret |-> FALSE]
             ELSE IF ~r.ret THEN raise_unresolved(r.st, p.depends[i], p)
             ELSE depends_loop(r.st, p, i + 1, depth)

\* Packages.mark_wanted_by_name(package_name), called at nesting depth
\* `depth` for the reason `why`; st is the resolver state (the wanted flags,
\* the pending exception, the call log), the result is [st, ret]
mark_wanted_by_name(st, package_name, why, depth) ==
    LET st1 == [st EXCEPT !.log = Append(@, <<"name", package_name, why>>)]
    IN  IF depth > RecursionLimit
        THEN [st |-> [st1 EXCEPT !.exc = RecursionError], ret |-> FALSE]
        ELSE IF package_name \notin Keys(by_name)
        THEN name_not_installed(st1, package_name, depth)
        ELSE LET p == Lookup(by_name, package_name)
             IN  IF is_wanted(st1, p) THEN already_wanted(st1, p)
                 ELSE depends_loop(mark_wanted(st1, p), p, 1, depth)

\* a loop that stops after the first provider
providers_loop_first_only(st, provided_name, i, depth) ==
    IF i > 1 \/ i > Len(by_provides[provided_name])
    THEN [st |-> st, ret |-> TRUE]
    ELSE LET r == mark_wanted_by_name(st, by_provides[provided_name][i],
                                      <<"alias", provided_name>>, depth + 1)
         IN  IF r.st.exc.kind # "none" THEN [st |-> r.st, ret |-> FALSE]
             ELSE [st |-> r.st, ret |-> TRUE]

\* __mark_wanted_by_provided, lines 147-148: the loop over
\* by_provides[provided_name] from entry i on; the return value of
\* mark_wanted_by_name is dropped, an exception propagates
providers_loop(st, provided_name, i, depth) ==
    IF i > Len(by_provides[provided_name]) THEN [st |-> st, ret |-> TRUE]
    ELSE LET r == mark_wanted_by_name(st, by_provides[provided_name][i],
                                      <<"alias", provided_name>>, depth + 1)
         IN  IF r.st.exc.kind # "none" THEN [st |-> r.st, ret |-> FALSE]
             ELSE providers_loop(r.st, provided_name, i + 1, depth)

\* alias resolution that marks no provider
mark_wanted_by_provided_marks_nothing(st, provided_name, depth) ==
    [st |-> [st EXCEPT !.log = Append(@, <<"provided", provided_name>>)],
     ret |-> provided_name \in DOMAIN by_provides]

\* Packages.__mark_wanted_by_provided(provided_name)
mark_wanted_by_provided(st, provided_name, depth) ==
    LET st1 == [st EXCEPT !.log = Append(@, <<"provided", provided_name>>)]
    IN  IF depth > RecursionLimit
        THEN [st |-> [st1 EXCEPT !.exc = RecursionError], ret |-> FALSE]
        ELSE IF provided_name \notin DOMAIN by_provides
        THEN [st |-> st1, ret |-> FALSE]
        ELSE providers_loop(st1, provided_name, 1, depth)

\* Packages.get_unwanted(): the values of by_name, in dict order, whose
\* wanted flag is False
IsUnwanted(p) == p.name \notin wanted

\* the unwanted packages, last added first
get_unwanted_reversed ==
    LET u == SelectSeq(by_name, IsUnwanted)
    IN  [i \in DOMAIN u |-> u[Len(u) + 1 - i]]

get_unwanted == SelectSeq(by_name, IsUnwanted)

\* ------------------------------------------------------------- process()

InitWith(path) ==
    /\ db_dir_path = path
    /\ phase = "read"
    /\ by_name = <<>>
    /\ by_provides = <<>>
    /\ wanted = {}
    /\ wants = <<>>
    /\ ret = "none"
    /\ exc = NoExc
    /\ log = <<>>
    /\ unwanted = <<>>

\* an add that registers the aliases before it looks at the name
Add_registers_first(file) ==
    /\ phase = "read"
    /\ Len(by_name) < MaxPkgs
    /\ file \in glob(db_dir_path)
    /\ LET p == Package(file)
       IN  /\ by_provides' = register_provides(by_provides, p, 1)
           /\ IF p.name \in Keys(by_name)
              THEN /\ exc' = DuplicationError(p)
                   /\ ret' = "raised"
                   /\ phase' = "aborted"
                   /\ UNCHANGED by_name
              ELSE /\ by_name' = Append(by_name, p)
                   /\ UNCHANGED <<exc, ret, phase>>
    /\ UNCHANGED <<db_dir_path, wanted, wants, log, unwanted>>

\* LocalPackageDatabase.read, one iteration: Package(file_path), then
\* Packages.add(package); a duplicate name ends the run
Add(file) ==
    /\ phase = "read"
    /\ Len(by_name) < MaxPkgs
    /\ file \in glob(db_dir_path)
    /\ LET p == Package(file)
       IN  IF p.name \in Keys(by_name)
           THEN /\ exc' = DuplicationError(p)
                /\ ret' = "raised"
                /\ phase' = "aborted"
                /\ UNCHANGED <<by_name, by_provides>>
           ELSE /\ by_name' = Append(by_name, p)
                /\ by_provides' = register_provides(by_provides, p, 1)
                /\ UNCHANGED <<exc, ret, phase>>
    /\ UNCHANGED <<db_dir_path, wanted, wants, log, unwanted>>

\* LocalPackageDatabase.read returns the graph to process()
ReadDone ==
    /\ phase = "read"
    /\ phase' = "mark"
    /\ UNCHANGED <<db_dir_path, by_name, by_provides, wanted, wants, ret, exc, log,
                   unwanted>>

\* process(), one iteration of the want-list loop
MarkWanted(wanted_pkg_name) ==
    /\ phase = "mark"
    /\ Len(wants) < MaxWants
    /\ LET r == mark_wanted_by_name(
                    [wanted |-> wanted, exc |-> NoExc, log |-> <<>>],
                    wanted_pkg_name, <<"root">>, 1)
       IN  /\ wanted' = r.st.wanted
           /\ log' = r.st.log
           /\ wants' = Append(wants, wanted_pkg_name)
           /\ IF r.st.exc.kind # "none"
              THEN ret' = "raised" /\ exc' = r.st.exc /\ phase' = "aborted"
              ELSE IF ~r.ret
              THEN /\ ret' = "False"
                   /\ exc' = NotInstalledError(wanted_pkg_name)
                   /\ phase' = "aborted"
              ELSE ret' = "True" /\ exc' = NoExc /\ phase' = "mark"
    /\ UNCHANGED <<db_dir_path, by_name, by_provides, unwanted>>

\* process(), after the want list: get_unwanted() is read and printed
GetUnwanted ==
    /\ phase = "mark"
    /\ unwanted' = get_unwanted
    /\ phase' = "done"
    /\ UNCHANGED <<db_dir_path, by_name, by_provides, wanted, wants, ret, exc,
                   log>>

Next ==
    \/ \E file \in glob(db_dir_path) : Add(file)
    \/ ReadDone
    \/ \E wanted_pkg_name \in UserWantsList(db_dir_path) :
           MarkWanted(wanted_pkg_name)
    \/ GetUnwanted

Init == InitWith("general")

InitDiamond == InitWith("diamond")

InitStrip == InitWith("strip")

Spec == Init /\ [][Next]_vars

SpecDiamond == InitDiamond /\ [][Next]_vars

SpecStrip == InitStrip /\ [][Next]_vars

\* ------------------------------------------------------------- properties

Installed == Keys(by_name)

Packages == Range(by_name)

Last(s) == s[Len(s)]

\* the installed packages whose own provides list names n
Providers(n) == {p.name : p \in {q \in Packages : n \in Range(q.provides)}}

\* what satisfies a dependency name: the installed package of that name, or
\* else every installed package that provides it
Satisfiers(n) == IF n \in Installed THEN {n} ELSE Providers(n)

DepNames(n) == Range(Lookup(by_name, n).depends)

\* the installed names in S with everything their dependencies reach
RECURSIVE Closure(_)
Closure(S) ==
    LET more == S \cup UNION {Satisfiers(dn) : dn \in UNION {DepNames(n) : n \in S}}
    IN  IF more = S THEN S ELSE Closure(more)

\* the dependencies of n that no installed name and no alias satisfies
Unresolved(n) ==
    {dn \in DepNames(n) : dn \notin Installed /\ dn \notin DOMAIN by_provides}

AllResolvable == \A n \in Installed : Unresolved(n) = {}

\* this step is one mark_wanted_by_name call of process()
MarkStep == phase = "mark" /\ wants' # wants

\* the packages the call of this step newly marks wanted
NewlyMarked == wanted' \ wanted

Visits(l) == {i \in DOMAIN l : l[i][1] = "visit"}

\* C1: once every want-list name has been passed to mark_wanted_by_name with
\* no error and no False return, get_unwanted() is exactly the installed
\* packages that are neither in the want list nor reached from it through
\* dependencies, a dependency being satisfied by the installed package of
\* that name or else by every installed package providing it.
C1_UnwantedIsComplementOfClosure ==
    /\ phase \in {"mark", "done"} =>
           {get_unwanted[i].name : i \in DOMAIN get_unwanted}
               = Installed \ Closure(Range(wants))
    /\ phase = "done" =>
           {unwanted[i].name : i \in DOMAIN unwanted}
               = Installed \ Closure(Range(wants))

\* A depends on B, a third package has no dependencies, the want list is
\* [A]: the third package alone is unwanted
C1_Witness ==
    /\ phase = "done"
    /\ wants = <<A>>
    /\ Installed = {A, B, V}
    /\ DepNames(A) = {B} /\ DepNames(B) = {} /\ DepNames(V) = {}
    /\ Len(unwanted) = 1 /\ unwanted[1].name = V

\* C2 as claimed: a root name that is no key of by_name is resolved as an
\* alias: when it is a key of by_provides the call returns True and every
\* provider is wanted, and it returns False only when the name is neither
\* installed nor provided.
C2_RootAliasResolved ==
    (phase \in {"mark", "aborted"} /\ wants # <<>> /\ Last(wants) \notin Installed)
        => /\ Last(wants) \in DOMAIN by_provides =>
                  ret = "True" /\ Range(by_provides[Last(wants)]) \subseteq wanted
           /\ ret = "False" => Last(wants) \notin DOMAIN by_provides

\* C2 as amended: a root name that is no key of by_name gets no alias
\* resolution: the call returns False, raises nothing and marks nothing,
\* whether or not the name is a key of by_provides; and the call returns
\* False only for a name that is no key of by_name.
C2_RootNotInstalledReturnsFalse ==
    [][MarkStep =>
          /\ Last(wants') \notin Installed =>
                 /\ ret' = "False"
                 /\ exc' = NotInstalledError(Last(wants'))
                 /\ wanted' = wanted
                 /\ \A i \in DOMAIN log' : log'[i][1] # "provided"
          /\ ret' = "False" => Last(wants') \notin Installed]_vars

\* the root name is provided by an installed package, not installed itself,
\* and the call returned False
C2_Witness ==
    /\ phase = "aborted"
    /\ wants # <<>>
    /\ Last(wants) \notin Installed
    /\ Last(wants) \in DOMAIN by_provides
    /\ ret = "False"
    /\ Range(by_provides[Last(wants)]) \cap wanted = {}

\* C3: a mark_wanted_by_name call raises exactly when a package it newly
\* marks wanted has a dependency that is neither a key of by_name nor a key
\* of by_provides; the error names that dependency and that package, ends
\* the run, and is never turned into a False return.
C3_RaisesExactlyOnUnresolved ==
    [][MarkStep =>
          /\ ret' = "raised" <=> \E n \in NewlyMarked : Unresolved(n) # {}
          /\ ret' = "raised" =>
                 /\ exc'.kind = "LookupError"
                 /\ exc'.what = "required"
                 /\ exc'.pkg \in NewlyMarked
                 /\ exc'.dep \in Unresolved(exc'.pkg)
                 /\ phase' = "aborted"]_vars

\* the error was raised for a dependency of a package reached from the
\* root, not of the root itself, and ended the outermost call
C3_Witness ==
    /\ phase = "aborted"
    /\ ret = "raised"
    /\ exc = UnresolvedError(M, [name |-> B])
    /\ Last(wants) = A
    /\ wanted = {A, B}

\* C4: add of a package whose name is already a key of by_name raises the
\* duplicate-name error and leaves the graph as it was: by_name keeps the
\* first package under that name and by_provides gains nothing; an add that
\* does change the graph appends a package under a new name.
C4_DuplicateAddLeavesGraph ==
    [][phase = "read" =>
          /\ exc'.kind = "DuplicationError" =>
                 /\ exc'.pkg \in Installed
                 /\ by_name' = by_name
                 /\ by_provides' = by_provides
                 /\ phase' = "aborted"
          /\ by_name' # by_name =>
                 /\ Len(by_name') = Len(by_name) + 1
                 /\ SubSeq(by_name', 1, Len(by_name)) = by_name
                 /\ Last(by_name').name \notin Installed
                 /\ exc' = NoExc]_vars

\* a second package named V was rejected while the first provides nothing:
\* every alias of the rejected package would have been a new key
C4_Witness ==
    /\ phase = "aborted"
    /\ exc = DuplicationError([name |-> V])
    /\ Installed = {V, A}
    /\ by_provides = <<>>

\* C5: when every dependency of the graph is resolvable, a
\* mark_wanted_by_name call ends without any error, also when packages are
\* reached again through a cycle or a diamond: a call on an installed name
\* returns True with everything the name reaches wanted, and only packages
\* that were not wanted before have their dependencies traversed, each once.
C5_TerminatesOnCyclesAndDiamonds ==
    [][MarkStep =>
          /\ exc'.kind # "RecursionError"
          /\ AllResolvable =>
                 /\ ret' # "raised"
                 /\ Last(wants') \in Installed =>
                        ret' = "True" /\ Closure({Last(wants')}) \subseteq wanted'
                 /\ \A i \in Visits(log') : log'[i][2] \notin wanted
                 /\ \A i, j \in Visits(log') : log'[i][2] = log'[j][2] => i = j]_vars

\* a diamond closed into a cycle: A depends on B and C, both depend on D,
\* D depends on A; marking A ended with all four wanted
C5_Witness ==
    /\ phase = "mark"
    /\ wants = <<A>>
    /\ ret = "True"
    /\ Installed = {A, B, C, D}
    /\ Lookup(by_name, A).depends = <<B, C>>
    /\ Lookup(by_name, B).depends = <<D>>
    /\ Lookup(by_name, C).depends = <<D>>
    /\ Lookup(by_name, D).depends = <<A>>
    /\ wanted = {A, B, C, D}
    /\ Cardinality(Visits(log)) = 4

\* the dependencies of the newly marked packages that only an alias satisfies
AliasDeps ==
    {dn \in UNION {DepNames(n) : n \in NewlyMarked} :
        dn \notin Installed /\ dn \in DOMAIN by_provides}

\* C6 as claimed: when a package being marked wanted depends on a name that
\* is not installed but is a key of by_provides, marking succeeds without
\* error and every provider of the name is wanted with all it reaches.
C6_AliasDependencyAlwaysSucceeds ==
    [][MarkStep =>
          \A dn \in AliasDeps :
              /\ ret' = "True"
              /\ \A x \in Range(by_provides[dn]) : Closure({x}) \subseteq wanted']_vars

\* C6 as amended: such a dependency never causes the unresolved-dependency
\* error itself, and when the call raises no error at all it returns True
\* and every provider of the name is wanted with all it reaches; alias
\* resolution succeeds exactly for the keys of by_provides, whose provider
\* lists are never empty: an attempt on any other name ends in the error
\* naming it.
C6_AliasDependencyMarksProviders ==
    [][MarkStep =>
          /\ \A k \in DOMAIN by_provides : by_provides[k] # <<>>
          /\ \A dn \in AliasDeps :
                 /\ ~(ret' = "raised" /\ exc'.dep = dn)
                 /\ ret' # "raised" =>
                        /\ ret' = "True"
                        /\ \A x \in Range(by_provides[dn]) :
                               Closure({x}) \subseteq wanted'
          /\ \A i \in DOMAIN log' :
                 (log'[i][1] = "provided" /\ log'[i][2] \notin DOMAIN by_provides)
                     => ret' = "raised" /\ exc'.dep = log'[i][2]]_vars

\* A depends on V, which is not installed; A itself and B provide V;
\* marking A marked B as well
C6_Witness ==
    /\ phase = "mark"
    /\ wants = <<A>>
    /\ ret = "True"
    /\ Installed = {A, B}
    /\ Lookup(by_name, A).depends = <<V>>
    /\ by_provides = [k \in {V} |-> <<A, B>>]
    /\ wanted = {A, B}

\* C7: a second mark_wanted_by_name call on a name whose first call
\* returned True returns True, raises nothing and leaves the wanted flags
\* as they were.
C7_SecondCallChangesNothing ==
    [][(MarkStep /\ Last(wants') \in Range(wants)) =>
          /\ ret' = "True"
          /\ exc' = NoExc
          /\ wanted' = wanted
          /\ phase' = "mark"]_vars

\* the same name was passed twice and had marked two packages
C7_Witness ==
    /\ phase = "mark"
    /\ wants = <<A, A>>
    /\ ret = "True"
    /\ wanted = {A, B}

\* the entry up to its first comparator character, the entry itself when it
\* holds none
PrefixBeforeComparator(item) ==
    LET hits == {i \in 1..Len(item) : item[i] \in Comparators}
    IN  IF hits = {} THEN item ELSE SubSeq(item, 1, Min(hits) - 1)

\* the same, except that a comparator that ends the entry stays
PrefixBeforeFollowedComparator(item) ==
    LET hits == {i \in 1..(Len(item) - 1) : item[i] \in Comparators}
    IN  IF hits = {} THEN item ELSE SubSeq(item, 1, Min(hits) - 1)

\* the stored form of a raw entry under either reading of the rule
Stripped(item, rule) ==
    IF rule = "first comparator" THEN PrefixBeforeComparator(item)
    ELSE PrefixBeforeFollowedComparator(item)

StoredAs(rule) ==
    \A p \in Packages :
        /\ Len(p.depends) = Len(p.desc_file_path.depends)
        /\ Len(p.provides) = Len(p.desc_file_path.provides)
        /\ \A i \in DOMAIN p.depends :
               p.depends[i] = Stripped(p.desc_file_path.depends[i], rule)
        /\ \A i \in DOMAIN p.provides :
               p.provides[i] = Stripped(p.desc_file_path.provides[i], rule)

\* what satisfies a name when the files' raw entries are read by the rule
RawSatisfiers(n, rule) ==
    IF n \in Installed THEN {n}
    ELSE {p.name : p \in {q \in Packages :
              \E i \in DOMAIN q.desc_file_path.provides :
                  Stripped(q.desc_file_path.provides[i], rule) = n}}

ResolvesAs(rule) ==
    phase \in {"mark", "done"} =>
        \A n \in Range(wants) :
            \A i \in DOMAIN Lookup(by_name, n).desc_file_path.depends :
                RawSatisfiers(
                    Stripped(Lookup(by_name, n).desc_file_path.depends[i], rule),
                    rule) \subseteq wanted

\* C8 as claimed: every entry of depends and provides is stored as its prefix
\* up to the first comparator character, and resolves as that prefix does.
C8_StoredAsPrefixBeforeComparator ==
    StoredAs("first comparator") /\ ResolvesAs("first comparator")

\* C8 as amended: every entry is stored as its prefix up to the first
\* comparator character that is followed by at least one more character,
\* and resolves as that prefix does; an entry with no comparator, or whose
\* only comparator is its last character, is stored unchanged.
C8_StoredAsPrefixBeforeFollowedComparator ==
    StoredAs("followed comparator") /\ ResolvesAs("followed comparator")

\* A's file depends on "v>=v", B's file provides "v<v"; A is stored as
\* depending on "v", and marking A marked B
C8_Witness ==
    /\ phase = "mark"
    /\ wants = <<A>>
    /\ ret = "True"
    /\ Installed = {A, B}
    /\ Lookup(by_name, A).desc_file_path.depends = << <<"v", ">", "=", "v">> >>
    /\ Lookup(by_name, A).depends = <<V>>
    /\ Lookup(by_name, B).desc_file_path.provides = << <<"v", "<", "v">> >>
    /\ wanted = {A, B}

\* the place of a package in by_name
Pos(p) == CHOOSE i \in DOMAIN by_name : by_name[i] = p

C9_State ==
    /\ \A i \in DOMAIN get_unwanted :
           get_unwanted[i] \in Packages /\ get_unwanted[i].name \notin wanted
    /\ \A p \in Packages :
           p.name \notin wanted =>
               Cardinality({i \in DOMAIN get_unwanted : get_unwanted[i] = p}) = 1
    /\ \A i, j \in DOMAIN get_unwanted :
           i < j => Pos(get_unwanted[i]) < Pos(get_unwanted[j])
    /\ phase = "read" => get_unwanted = by_name
    /\ phase = "done" => unwanted = get_unwanted

C9_Step ==
    /\ by_name' # by_name => SubSeq(by_name', 1, Len(by_name)) = by_name
    /\ (phase = "mark" /\ phase' = "done") =>
           UNCHANGED <<by_name, by_provides, wanted>>

\* C9: in every state get_unwanted() is exactly the added packages whose
\* wanted flag is False, each once, in the order they were added; before any
\* mark_wanted_by_name call that is every added package; and reading it
\* changes no flag and no index.
C9_GetUnwantedIsUnmarkedInOrder == []C9_State /\ [][C9_Step]_vars

\* three packages were added, the second alone was marked, and process()
\* read the first and the third, in that order
C9_Witness ==
    /\ phase = "done"
    /\ Len(by_name) = 3
    /\ wanted = {by_name[2].name}
    /\ unwanted = <<by_name[1], by_name[3]>>

\* C10: alias resolution of a dependency is attempted only right after the
\* lookup of that dependency by name returned False: an installed package
\* named by a dependency is marked, a provider is looked up only on account
\* of an alias that is no installed name, and every newly marked package
\* was reached by such a lookup.
C10_NameBeforeAlias ==
    \A i \in DOMAIN log :
        /\ log[i][1] = "provided" =>
               /\ log[i][2] \notin Installed
               /\ i > 1
               /\ log[i - 1][1] = "name"
               /\ log[i - 1][2] = log[i][2]
               /\ log[i - 1][3][1] = "dep"
        /\ log[i][1] = "name" =>
               /\ log[i][2] \in Installed => log[i][2] \in wanted
               /\ log[i][3][1] = "alias" =>
                      /\ log[i][3][2] \notin Installed
                      /\ log[i][2] \in Range(by_provides[log[i][3][2]])
        /\ log[i][1] = "visit" =>
               /\ i > 1
               /\ log[i - 1][1] = "name"
               /\ log[i - 1][2] = log[i][2]

\* A depends on V, V is installed and B provides V as well: marking A
\* marked V and left B unwanted
C10_Witness ==
    /\ phase = "mark"
    /\ wants = <<A>>
    /\ ret = "True"
    /\ Installed = {A, B, V}
    /\ Lookup(by_name, A).depends = <<V>>
    /\ V \in DOMAIN by_provides
    /\ B \in Range(by_provides[V])
    /\ wanted = {A, V}

====
